---- MODULE Spec2Model ----
(***************************************************************************)
(* Stopwatch with lap recording and a session history persisted in         *)
(* localStorage (src/src/App.tsx).                                         *)
(*                                                                         *)
(* The component's hook state, the closure values of its last render, the  *)
(* interval timers of the page and the blob store are the state.  A user   *)
(* event handler runs to completion together with the synchronous render   *)
(* and the effects that its state updates trigger; an interval callback    *)
(* only queues its update, which is rendered by a later task.              *)
(***************************************************************************)
EXTENDS Integers, Sequences, FiniteSets, TLC

(***************************************************************************)
(* Bounds of the model.                                                    *)
(***************************************************************************)
MaxTime == 20
MaxLaps == 2
MaxSessions == 2
MaxNow == 41
MaxTimers == 2
MaxBadgeLaps == 4

(***************************************************************************)
(* Program constants.                                                      *)
(***************************************************************************)
TickQuantum == 10
StorageKey == "stopwatch-sessions"

(***************************************************************************)
(* JavaScript values.  Every value carries its dynamic type, since the     *)
(* session state can hold whatever JSON.parse returned.  A string is a     *)
(* sequence of characters; an object is the sequence of its members in     *)
(* insertion order.                                                        *)
(***************************************************************************)
Null == [t |-> "null"]
Undefined == [t |-> "undefined"]
Num(n) == [t |-> "number", v |-> n]
Str(s) == [t |-> "string", v |-> s]
Arr(s) == [t |-> "array", v |-> s]
Obj(m) == [t |-> "object", v |-> m]
Member(k, x) == [key |-> k, val |-> x]

HasKey(o, k) == o.t = "object" /\ \E i \in 1..Len(o.v) : o.v[i].key = k

Get(o, k) ==
    IF HasKey(o, k)
    THEN o.v[CHOOSE i \in 1..Len(o.v) : o.v[i].key = k].val
    ELSE Undefined

StrictEq(a, b) ==
    /\ a.t = b.t
    /\ a.t \in {"number", "string"} => a.v = b.v

Digits == <<"0", "1", "2", "3", "4", "5", "6", "7", "8", "9">>

RECURSIVE NumberToString(_)
NumberToString(n) ==
    IF n < 10
    THEN <<Digits[n + 1]>>
    ELSE NumberToString(n \div 10) \o <<Digits[(n % 10) + 1]>>

DigitValue(c) == CHOOSE d \in 0..9 : Digits[d + 1] = c

RECURSIVE StringToNumber(_)
StringToNumber(s) ==
    IF Len(s) = 1
    THEN DigitValue(s[1])
    ELSE 10 * StringToNumber(SubSeq(s, 1, Len(s) - 1)) + DigitValue(s[Len(s)])

ToISOString(ms) == <<"T">> \o NumberToString(ms) \o <<"Z">>

(***************************************************************************)
(* JSON text is a sequence of tokens.                                      *)
(***************************************************************************)
Punct(p) == [k |-> p]
NumTok(n) == [k |-> "num", v |-> NumberToString(n)]
StrTok(s) == [k |-> "str", v |-> s]
KeyTok(s) == [k |-> "key", v |-> s]

RECURSIVE JSONstringify(_)
RECURSIVE StringifyElements(_, _)
RECURSIVE StringifyMembers(_, _)

StringifyElements(s, i) ==
    IF i > Len(s) THEN <<>>
    ELSE (IF i > 1 THEN <<Punct(",")>> ELSE <<>>)
         \o JSONstringify(s[i]) \o StringifyElements(s, i + 1)

StringifyMembers(m, i) ==
    IF i > Len(m) THEN <<>>
    ELSE (IF i > 1 THEN <<Punct(",")>> ELSE <<>>)
         \o <<KeyTok(m[i].key), Punct(":")>>
         \o JSONstringify(m[i].val) \o StringifyMembers(m, i + 1)

JSONstringify(x) ==
    CASE x.t = "null" -> <<Punct("null")>>
      [] x.t = "number" -> <<NumTok(x.v)>>
      [] x.t = "string" -> <<StrTok(x.v)>>
      [] x.t = "array" -> <<Punct("[")>> \o StringifyElements(x.v, 1) \o <<Punct("]")>>
      [] x.t = "object" -> <<Punct("{")>> \o StringifyMembers(x.v, 1) \o <<Punct("}")>>

(***************************************************************************)
(* JSON.parse: recursive descent over the tokens.  A result is either      *)
(* [ok |-> TRUE, val, next] or [ok |-> FALSE], the SyntaxError.            *)
(***************************************************************************)
SyntaxError == [ok |-> FALSE]
Parsed(x, n) == [ok |-> TRUE, val |-> x, next |-> n]
Kind(text, i) == IF i <= Len(text) THEN text[i].k ELSE "eof"

RECURSIVE ParseValue(_, _)
RECURSIVE ParseElements(_, _, _)
RECURSIVE ParseMembers(_, _, _)

ParseElements(text, i, acc) ==
    LET r == ParseValue(text, i) IN
    IF ~r.ok THEN SyntaxError
    ELSE IF Kind(text, r.next) = "," THEN ParseElements(text, r.next + 1, Append(acc, r.val))
    ELSE IF Kind(text, r.next) = "]" THEN Parsed(Arr(Append(acc, r.val)), r.next + 1)
    ELSE SyntaxError

ParseMembers(text, i, acc) ==
    IF Kind(text, i) # "key" \/ Kind(text, i + 1) # ":" THEN SyntaxError
    ELSE LET r == ParseValue(text, i + 2)
             m == IF r.ok THEN Append(acc, Member(text[i].v, r.val)) ELSE acc
         IN IF ~r.ok THEN SyntaxError
            ELSE IF Kind(text, r.next) = "," THEN ParseMembers(text, r.next + 1, m)
            ELSE IF Kind(text, r.next) = "}" THEN Parsed(Obj(m), r.next + 1)
            ELSE SyntaxError

ParseValue(text, i) ==
    LET k == Kind(text, i) IN
    CASE k = "null" -> Parsed(Null, i + 1)
      [] k = "num" -> Parsed(Num(StringToNumber(text[i].v)), i + 1)
      [] k = "str" -> Parsed(Str(text[i].v), i + 1)
      [] k = "[" -> IF Kind(text, i + 1) = "]"
                    THEN Parsed(Arr(<<>>), i + 2)
                    ELSE ParseElements(text, i + 1, <<>>)
      [] k = "{" -> IF Kind(text, i + 1) = "}"
                    THEN Parsed(Obj(<<>>), i + 2)
                    ELSE ParseMembers(text, i + 1, <<>>)
      [] OTHER -> SyntaxError

JSONparse(text) ==
    LET r == ParseValue(text, 1) IN
    IF r.ok /\ r.next = Len(text) + 1 THEN [ok |-> TRUE, val |-> r.val] ELSE SyntaxError

(***************************************************************************)
(* The blob store: a map from keys to texts.                               *)
(***************************************************************************)
GetItem(store, key) == IF key \in DOMAIN store THEN [found |-> TRUE, text |-> store[key]]
                       ELSE [found |-> FALSE]

SetItem(store, key, text) ==
    [x \in DOMAIN store \cup {key} |-> IF x = key THEN text ELSE store[x]]

RemoveItem(store, key) == [x \in DOMAIN store \ {key} |-> store[x]]

NoStore == [x \in {} |-> <<>>]

(***************************************************************************)
(* State.                                                                  *)
(***************************************************************************)
VARIABLES
    time,           \* useState(0): elapsed ms, with every queued update applied
    isRunning,      \* useState(false)
    lapTimes,       \* useState([]): laps of the current run, most recent first
    lastLapTime,    \* useState(0)
    sessions,       \* useState([]): the history, a JavaScript value
    renderedTime,   \* the value of time captured by the handlers of the last render
    intervalRef,    \* useRef(null).current; 0 is null
    timers,         \* the interval timers of the page that are scheduled
    nextTimer,      \* the id the next setInterval returns
    localStorage,   \* the blob store
    now,            \* the wall clock, ms
    console,        \* the messages written by console.error since the page was opened
    pc,             \* "init", "mounted", "ready", "crashed", "unmounted"
    lastOp,         \* the step taken last
    lastArg,        \* the characters of the id passed to the last deleteSession
    restartedAfterClear \* the page was last reopened right after clearAllHistory

vars == <<time, isRunning, lapTimes, lastLapTime, sessions, renderedTime,
          intervalRef, timers, nextTimer, localStorage, now, console, pc, lastOp,
          lastArg, restartedAfterClear>>

(***************************************************************************)
(* Data of the program.                                                    *)
(***************************************************************************)
LapTime(id, t, lap) ==
    Obj(<<Member("id", Num(id)), Member("time", Num(t)), Member("lapTime", Num(lap))>>)

Session(ms, total, laps) ==
    Obj(<<Member("id", Str(NumberToString(ms))),
          Member("date", Str(ToISOString(ms))),
          Member("totalTime", Num(total)),
          Member("lapTimes", Arr(laps))>>)

(***************************************************************************)
(* Texts the blob store may hold when the page is first opened.            *)
(***************************************************************************)
\* The stored session was saved by an earlier opening of the page while the
\* wall clock read 21; Date.now() is not monotonic across openings.
StoredSession == Session(21, 20, <<LapTime(1, 10, 10)>>)
InitialStores ==
    <<NoStore,
      SetItem(NoStore, StorageKey, <<>>),
      SetItem(NoStore, StorageKey, <<Punct("["), Punct("{")>>),
      SetItem(NoStore, StorageKey, JSONstringify(Null)),
      SetItem(NoStore, StorageKey, JSONstringify(Num(7))),
      SetItem(NoStore, StorageKey, JSONstringify(Obj(<<>>))),
      SetItem(NoStore, StorageKey, JSONstringify(Str(<<"x">>))),
      SetItem(NoStore, StorageKey, JSONstringify(Arr(<<>>))),
      SetItem(NoStore, StorageKey, JSONstringify(Arr(<<StoredSession>>)))>>

Constructed ==
    /\ time = 0
    /\ isRunning = FALSE
    /\ lapTimes = <<>>
    /\ lastLapTime = 0
    /\ sessions = Arr(<<>>)
    /\ renderedTime = 0
    /\ intervalRef = 0
    /\ timers = {}
    /\ nextTimer = 1
    /\ console = <<>>
    /\ pc = "init"

Init ==
    /\ Constructed
    /\ \E n \in DOMAIN InitialStores : localStorage = InitialStores[n]
    /\ now = 11
    /\ lastOp = "construct"
    /\ lastArg = <<>>
    /\ restartedAfterClear = FALSE

(***************************************************************************)
(* Effects of the component.                                               *)
(***************************************************************************)
\* a load that parses the stored text and drops the result
LoadEffectDiscard(store) == [set |-> FALSE, log |-> <<>>, threw |-> FALSE]

\* the load without its try/catch
LoadEffectUncaught(store) ==
    LET savedSessions == GetItem(store, StorageKey) IN
    IF savedSessions.found /\ savedSessions.text # <<>>
    THEN LET r == JSONparse(savedSessions.text) IN
         IF r.ok
         THEN [set |-> TRUE, val |-> r.val, log |-> <<>>, threw |-> FALSE]
         ELSE [set |-> FALSE, log |-> <<>>, threw |-> TRUE]
    ELSE [set |-> FALSE, log |-> <<>>, threw |-> FALSE]

\* useEffect(..., []): the load from the blob store
LoadEffect(store) ==
    LET savedSessions == GetItem(store, StorageKey) IN
    IF savedSessions.found /\ savedSessions.text # <<>>
    THEN LET r == JSONparse(savedSessions.text) IN
         IF r.ok
         THEN [set |-> TRUE, val |-> r.val, log |-> <<>>, threw |-> FALSE]
         ELSE [set |-> FALSE, log |-> <<"Error loading sessions:">>, threw |-> FALSE]
    ELSE [set |-> FALSE, log |-> <<>>, threw |-> FALSE]

\* a save that writes the newest session only
SaveEffectHead(store, s) ==
    SetItem(store, StorageKey,
            JSONstringify(IF s.t = "array" /\ Len(s.v) > 1 THEN Arr(<<s.v[1]>>) ELSE s))

\* useEffect(..., [sessions]): the save to the blob store
SaveEffect(store, s) == SetItem(store, StorageKey, JSONstringify(s))

ClearInterval(active, id) == active \ {id}

\* a cleanup that leaves the interval scheduled
EffectCleanupLeak(ref, active) == active

\* the cleanup function returned by useEffect(..., [isRunning])
EffectCleanup(ref, active) == IF ref # 0 THEN ClearInterval(active, ref) ELSE active

\* the body of useEffect(..., [isRunning])
IntervalEffect(running, ref, active, fresh) ==
    IF running
    THEN [ref |-> fresh, timers |-> active \cup {fresh}, next |-> fresh + 1]
    ELSE [ref |-> ref, timers |-> EffectCleanup(ref, active), next |-> fresh]

\* the commit of a render in which isRunning went from old to new
IntervalCommit(old, new, ref, active, fresh) ==
    IF old = new
    THEN [ref |-> ref, timers |-> active, next |-> fresh]
    ELSE IntervalEffect(new, ref, EffectCleanup(ref, active), fresh)

\* the render reads sessions.length
RenderThrows(s) == s.t \in {"null", "undefined"}

(***************************************************************************)
(* Startup.                                                                *)
(***************************************************************************)
\* first render and the effects of the mount, in the order of their declaration
Mount ==
    /\ pc = "init"
    /\ LET l == LoadEffect(localStorage)
           e == IntervalEffect(isRunning, intervalRef, timers, nextTimer)
       IN /\ sessions' = IF l.set THEN l.val ELSE sessions
          /\ console' = console \o l.log
          /\ localStorage' = IF l.threw THEN localStorage
                             ELSE SaveEffect(localStorage, sessions)
          /\ intervalRef' = e.ref
          /\ timers' = e.timers
          /\ nextTimer' = e.next
          /\ pc' = IF l.threw THEN "crashed" ELSE IF l.set THEN "mounted" ELSE "ready"
    /\ lastOp' = "mount"
    /\ lastArg' = <<>>
    /\ UNCHANGED <<time, isRunning, lapTimes, lastLapTime, renderedTime, now,
                   restartedAfterClear>>

\* the render of the loaded sessions and the save effect it triggers
RenderLoaded ==
    /\ pc = "mounted"
    /\ IF RenderThrows(sessions)
       THEN /\ pc' = "crashed"
            /\ timers' = EffectCleanup(intervalRef, timers)
            /\ UNCHANGED localStorage
       ELSE /\ pc' = "ready"
            /\ localStorage' = SaveEffect(localStorage, sessions)
            /\ UNCHANGED timers
    /\ lastOp' = "renderLoaded"
    /\ lastArg' = <<>>
    /\ UNCHANGED <<time, isRunning, lapTimes, lastLapTime, sessions, renderedTime,
                   intervalRef, nextTimer, now, console, restartedAfterClear>>

(***************************************************************************)
(* The timer.                                                              *)
(***************************************************************************)
\* the interval callback: setTime(prevTime => prevTime + 10)
Tick ==
    /\ pc = "ready"
    /\ timers # {}
    /\ time + TickQuantum <= MaxTime
    /\ now + TickQuantum <= MaxNow
    /\ time' = time + TickQuantum
    /\ now' = now + TickQuantum
    /\ lastOp' = "tick"
    /\ lastArg' = <<>>
    /\ UNCHANGED <<isRunning, lapTimes, lastLapTime, sessions, renderedTime,
                   intervalRef, timers, nextTimer, localStorage, console, pc,
                   restartedAfterClear>>

\* the render scheduled by the interval callback
RenderTick ==
    /\ pc = "ready"
    /\ renderedTime # time
    /\ renderedTime' = time
    /\ lastOp' = "renderTick"
    /\ lastArg' = <<>>
    /\ UNCHANGED <<time, isRunning, lapTimes, lastLapTime, sessions, intervalRef,
                   timers, nextTimer, localStorage, now, console, pc, restartedAfterClear>>

\* a start button that never stops the timer
ToggleOn(running) == TRUE

\* !isRunning
Toggle(running) == ~running

HandleStartStop ==
    /\ pc = "ready"
    /\ ~isRunning => nextTimer <= MaxTimers
    /\ isRunning' = Toggle(isRunning)
    /\ LET e == IntervalCommit(isRunning, isRunning', intervalRef, timers, nextTimer)
       IN /\ intervalRef' = e.ref
          /\ timers' = e.timers
          /\ nextTimer' = e.next
    /\ lastOp' = "handleStartStop"
    /\ lastArg' = <<>>
    /\ UNCHANGED <<time, lapTimes, lastLapTime, sessions, renderedTime, localStorage,
                   now, console, pc, restartedAfterClear>>

(***************************************************************************)
(* Laps and sessions.                                                      *)
(***************************************************************************)
Iterable(x) == x.t \in {"array", "string"}

\* [...x]
Spread(x) ==
    IF x.t = "string" THEN [i \in 1..Len(x.v) |-> Str(<<x.v[i]>>)] ELSE x.v

\* saveSession without the test of the elapsed time
SaveSessionAlways(t, laps, ms, prev) ==
    IF Iterable(prev)
    THEN [saved |-> TRUE, threw |-> FALSE,
          val |-> Arr(<<Session(ms, t, laps)>> \o Spread(prev))]
    ELSE [saved |-> TRUE, threw |-> TRUE, val |-> prev]

\* saveSession with the time and laps of the last render, the clock reading ms
\* and the session state prev that the updater receives
SaveSession(t, laps, ms, prev) ==
    IF t > 0
    THEN IF Iterable(prev)
         THEN [saved |-> TRUE, threw |-> FALSE,
               val |-> Arr(<<Session(ms, t, laps)>> \o Spread(prev))]
         ELSE [saved |-> TRUE, threw |-> TRUE, val |-> prev]
    ELSE [saved |-> FALSE, threw |-> FALSE, val |-> prev]

\* an error thrown while rendering unmounts the component
Crash ==
    /\ pc' = "crashed"
    /\ timers' = EffectCleanup(intervalRef, timers)
    /\ UNCHANGED <<time, isRunning, lapTimes, lastLapTime, sessions, renderedTime,
                   intervalRef, nextTimer, localStorage>>

HandleReset ==
    /\ pc = "ready"
    /\ LET s == SaveSession(renderedTime, lapTimes, now, sessions) IN
       /\ (s.saved /\ ~s.threw) => Len(s.val.v) <= MaxSessions
       /\ IF s.threw
          THEN Crash
          ELSE /\ sessions' = s.val
               /\ isRunning' = FALSE
               /\ time' = 0
               /\ lapTimes' = <<>>
               /\ lastLapTime' = 0
               /\ renderedTime' = 0
               /\ localStorage' = IF s.saved THEN SaveEffect(localStorage, s.val)
                                  ELSE localStorage
               /\ LET e == IntervalCommit(isRunning, FALSE, intervalRef, timers, nextTimer)
                  IN /\ intervalRef' = e.ref
                     /\ timers' = e.timers
                     /\ nextTimer' = e.next
               /\ UNCHANGED pc
    /\ lastOp' = "handleReset"
    /\ lastArg' = <<>>
    /\ UNCHANGED <<now, console, restartedAfterClear>>

\* handleLap without the test of isRunning
LapUpdateUnguarded(running, t, last, laps) ==
    [laps |-> <<LapTime(Len(laps) + 1, t, t - last)>> \o laps, last |-> t]

\* handleLap that numbers the laps from 0
LapUpdateZeroBased(running, t, last, laps) ==
    IF running
    THEN [laps |-> <<LapTime(Len(laps), t, t - last)>> \o laps, last |-> t]
    ELSE [laps |-> laps, last |-> last]

\* handleLap that records the cumulative time as the split
LapUpdateCumulative(running, t, last, laps) ==
    IF running
    THEN [laps |-> <<LapTime(Len(laps) + 1, t, t)>> \o laps, last |-> t]
    ELSE [laps |-> laps, last |-> last]

\* handleLap with the values of the last render
LapUpdate(running, t, last, laps) ==
    IF running
    THEN [laps |-> <<LapTime(Len(laps) + 1, t, t - last)>> \o laps, last |-> t]
    ELSE [laps |-> laps, last |-> last]

HandleLap ==
    /\ pc = "ready"
    /\ isRunning => Len(lapTimes) < MaxLaps
    /\ LET u == LapUpdate(isRunning, renderedTime, lastLapTime, lapTimes)
       IN /\ lapTimes' = u.laps
          /\ lastLapTime' = u.last
    /\ lastOp' = "handleLap"
    /\ lastArg' = <<>>
    /\ UNCHANGED <<time, isRunning, sessions, renderedTime, intervalRef, timers,
                   nextTimer, localStorage, now, console, pc, restartedAfterClear>>

\* a delete that drops the first session whatever its id
FilterSessionsHead(prev, sessionId) ==
    Arr(IF prev.v = <<>> THEN <<>> ELSE Tail(prev.v))

\* prev.filter(session => session.id !== sessionId)
FilterSessions(prev, sessionId) ==
    Arr(SelectSeq(prev.v, LAMBDA session : ~StrictEq(Get(session, "id"), sessionId)))

DeleteSession(sessionId) ==
    /\ pc = "ready"
    /\ IF sessions.t # "array"
       THEN Crash
       ELSE /\ sessions' = FilterSessions(sessions, sessionId)
            /\ localStorage' = SaveEffect(localStorage, sessions')
            /\ UNCHANGED <<time, isRunning, lapTimes, lastLapTime, renderedTime,
                           intervalRef, timers, nextTimer, pc>>
    /\ lastOp' = "deleteSession"
    /\ lastArg' = sessionId.v
    /\ UNCHANGED <<now, console, restartedAfterClear>>

\* an id that no session carries: the clock never reads 0
AbsentId == Str(NumberToString(0))

\* a clear of the list in memory that never reaches the blob store
ClearAllHistoryInMemory ==
    /\ pc = "ready"
    /\ sessions' = Arr(<<>>)
    /\ lastOp' = "clearAllHistory"
    /\ lastArg' = <<>>
    /\ UNCHANGED <<time, isRunning, lapTimes, lastLapTime, renderedTime, intervalRef,
                   timers, nextTimer, localStorage, now, console, pc,
                   restartedAfterClear>>

ClearAllHistory ==
    /\ pc = "ready"
    /\ sessions' = Arr(<<>>)
    /\ localStorage' = SaveEffect(RemoveItem(localStorage, StorageKey), sessions')
    /\ lastOp' = "clearAllHistory"
    /\ lastArg' = <<>>
    /\ UNCHANGED <<time, isRunning, lapTimes, lastLapTime, renderedTime, intervalRef,
                   timers, nextTimer, now, console, pc, restartedAfterClear>>

(***************************************************************************)
(* The view: the clock text and the badges of the lap list.                *)
(***************************************************************************)
RECURSIVE PadStart(_, _, _)
PadStart(s, targetLength, c) ==
    IF Len(s) >= targetLength THEN s ELSE PadStart(<<c>> \o s, targetLength, c)

\* a clock whose minutes wrap at the hour
FormatTimeHourly(milliseconds) ==
    LET totalSeconds == milliseconds \div 1000
        minutes == (totalSeconds \div 60) % 60
        seconds == totalSeconds % 60
        ms == (milliseconds % 1000) \div 10
    IN PadStart(NumberToString(minutes), 2, "0") \o <<":">>
         \o PadStart(NumberToString(seconds), 2, "0") \o <<".">>
         \o PadStart(NumberToString(ms), 2, "0")

FormatTime(milliseconds) ==
    LET totalSeconds == milliseconds \div 1000
        minutes == totalSeconds \div 60
        seconds == totalSeconds % 60
        ms == (milliseconds % 1000) \div 10
    IN PadStart(NumberToString(minutes), 2, "0") \o <<":">>
         \o PadStart(NumberToString(seconds), 2, "0") \o <<".">>
         \o PadStart(NumberToString(ms), 2, "0")

\* Math.min and Math.max of one or more numbers
RECURSIVE MathMin(_)
MathMin(s) ==
    IF Len(s) = 1
    THEN s[1]
    ELSE LET m == MathMin(Tail(s)) IN IF s[1] < m THEN s[1] ELSE m

RECURSIVE MathMax(_)
MathMax(s) ==
    IF Len(s) = 1
    THEN s[1]
    ELSE LET m == MathMax(Tail(s)) IN IF s[1] > m THEN s[1] ELSE m

\* laps.map(lap => lap.lapTime)
LapSplits(laps) == [i \in 1..Len(laps) |-> Get(laps[i], "lapTime").v]

GetFastest(laps) ==
    IF Len(laps) = 0 THEN Null ELSE Num(MathMin(LapSplits(laps)))

GetSlowest(laps) ==
    IF Len(laps) = 0 THEN Null ELSE Num(MathMax(LapSplits(laps)))

\* lap.lapTime === fastest
FastestBadge(lap, laps) == StrictEq(Get(lap, "lapTime"), GetFastest(laps))

\* a slowest badge shown on a lone lap too
SlowestBadgeAlone(lap, laps) == StrictEq(Get(lap, "lapTime"), GetSlowest(laps))

\* lap.lapTime === slowest && lapTimes.length > 1
SlowestBadge(lap, laps) ==
    StrictEq(Get(lap, "lapTime"), GetSlowest(laps)) /\ Len(laps) > 1

(***************************************************************************)
(* Teardown and reopening of the page.                                     *)
(***************************************************************************)
Unmount ==
    /\ pc = "ready"
    /\ pc' = "unmounted"
    /\ timers' = EffectCleanup(intervalRef, timers)
    /\ lastOp' = "unmount"
    /\ lastArg' = <<>>
    /\ UNCHANGED <<time, isRunning, lapTimes, lastLapTime, sessions, renderedTime,
                   intervalRef, nextTimer, localStorage, now, console, restartedAfterClear>>

Restart ==
    /\ pc # "init"
    /\ time' = 0
    /\ isRunning' = FALSE
    /\ lapTimes' = <<>>
    /\ lastLapTime' = 0
    /\ sessions' = Arr(<<>>)
    /\ renderedTime' = 0
    /\ intervalRef' = 0
    /\ timers' = {}
    /\ nextTimer' = 1
    /\ console' = <<>>
    /\ pc' = "init"
    /\ lastOp' = "restart"
    /\ lastArg' = <<>>
    /\ restartedAfterClear' = (lastOp = "clearAllHistory")
    /\ UNCHANGED <<localStorage, now>>

Next ==
    \/ Mount
    \/ RenderLoaded
    \/ Tick
    \/ RenderTick
    \/ HandleStartStop
    \/ HandleReset
    \/ HandleLap
    \/ /\ sessions.t = "array"
       /\ \E i \in 1..Len(sessions.v) :
             /\ HasKey(sessions.v[i], "id")
             /\ DeleteSession(Get(sessions.v[i], "id"))
    \/ DeleteSession(AbsentId)
    \/ ClearAllHistory
    \/ Unmount
    \/ Restart

Spec == Init /\ [][Next]_vars

(***************************************************************************)
(* The clock text over a range of elapsed times: the page shows a time and *)
(* the next render formats it.                                             *)
(***************************************************************************)
FormatMinutes == {0, 1, 9, 10, 59, 60, 99, 100, 1000}
FormatSeconds == {0, 1, 9, 10, 59}
FormatMillis == {0, 9, 10, 234, 999}
FormatInputs ==
    {m * 60000 + sec * 1000 + c :
        m \in FormatMinutes, sec \in FormatSeconds, c \in FormatMillis}

Rendered ==
    /\ isRunning = FALSE
    /\ sessions = Arr(<<>>)
    /\ intervalRef = 0
    /\ timers = {}
    /\ nextTimer = 1
    /\ localStorage = SetItem(NoStore, StorageKey, JSONstringify(Arr(<<>>)))
    /\ now = 11
    /\ console = <<>>
    /\ pc = "ready"
    /\ lastOp = "renderLoaded"
    /\ lastArg = <<>>
    /\ restartedAfterClear = FALSE

InitFormat ==
    /\ Rendered
    /\ time \in FormatInputs
    /\ renderedTime = 0
    /\ lapTimes = <<>>
    /\ lastLapTime = 0

NextFormat == RenderTick

SpecFormat == InitFormat /\ [][NextFormat]_vars

(***************************************************************************)
(* The badges over a range of lap lists: the page shows a paused run with  *)
(* laps of the given splits, most recent first.                            *)
(***************************************************************************)
BadgeSplits == {300, 400, 500, 800}

RECURSIVE RecordLaps(_)
RecordLaps(splits) ==
    IF splits = <<>>
    THEN [laps |-> <<>>, last |-> 0]
    ELSE LET r == RecordLaps(Tail(splits))
         IN LapUpdate(TRUE, r.last + Head(splits), r.last, r.laps)

InitBadges ==
    /\ Rendered
    /\ \E n \in 0..MaxBadgeLaps :
         \E splits \in [1..n -> BadgeSplits] :
            LET r == RecordLaps(splits)
            IN /\ lapTimes = r.laps
               /\ lastLapTime = r.last
               /\ time = r.last
               /\ renderedTime = r.last

NextBadges ==
    \/ HandleStartStop
    \/ HandleLap

SpecBadges == InitBadges /\ [][NextBadges]_vars

(***************************************************************************)
(* Properties.                                                             *)
(***************************************************************************)
IsSessionList(x) == x.t = "array"

Stored(store) == GetItem(store, StorageKey)

\* C1: the elapsed time increases only by a tick, a tick adds exactly 10 ms,
\* and a tick is applied only while running is true; while running is false
\* no step increases the elapsed time.
ElapsedIncreasesOnlyByTickWhileRunning ==
    [][/\ time' > time => lastOp' = "tick"
       /\ lastOp' = "tick" => (isRunning /\ time' = time + 10)
       /\ ~isRunning => time' <= time]_vars

TickedTwiceWhileRunning == lastOp = "tick" /\ isRunning /\ time = 20

\* C2: a reset with a positive elapsed time, issued while the reset button is
\* enabled, prepends exactly one session whose totalTime is the elapsed time
\* held immediately before the reset and whose lapTimes are the laps held
\* before the reset, and leaves the engine in its initial state.
ResetSavesElapsedTime ==
    [][(lastOp' = "handleReset" /\ time > 0 /\ renderedTime > 0 /\ IsSessionList(sessions))
         => /\ IsSessionList(sessions')
            /\ Len(sessions'.v) = Len(sessions.v) + 1
            /\ Tail(sessions'.v) = sessions.v
            /\ Get(sessions'.v[1], "totalTime") = Num(time)
            /\ Get(sessions'.v[1], "lapTimes") = Arr(lapTimes)
            /\ ~isRunning'
            /\ time' = 0
            /\ lapTimes' = <<>>
            /\ lastLapTime' = 0]_vars

\* C3: a reset with elapsed time 0 creates no session: the session list and
\* the blob store are the same after it as before it.
ResetAtZeroCreatesNoSession ==
    [][(lastOp' = "handleReset" /\ time = 0)
         => (sessions' = sessions /\ localStorage' = localStorage)]_vars

\* no tick has fired since the page was first opened, so the reset found time 0
ResetAtZeroDone ==
    /\ lastOp = "handleReset"
    /\ now = 11
    /\ pc = "ready"
    /\ IsSessionList(sessions)
    /\ Len(sessions.v) = 1

\* C4: handleLap while running is false changes none of laps, lastLapTime,
\* elapsed time, running and the session list.
LapWhilePausedIsNoOp ==
    [][(lastOp' = "handleLap" /\ ~isRunning)
         => UNCHANGED <<lapTimes, lastLapTime, time, isRunning, sessions>>]_vars

LapWhilePausedDone == lastOp = "handleLap" /\ ~isRunning /\ time = 10 /\ lapTimes # <<>>

RECURSIVE SumLapTime(_)
SumLapTime(laps) ==
    IF laps = <<>> THEN 0 ELSE Get(Head(laps), "lapTime").v + SumLapTime(Tail(laps))

CumulativeOf(laps, i) == IF i > Len(laps) THEN 0 ELSE Get(laps[i], "time").v

\* C5: the splits of the laps of the current run add up to the cumulative
\* time of the most recent lap, which is lastLapTime (0 without a lap), and
\* each split is the lap's cumulative time minus that of the lap before it.
SplitsPartitionElapsed ==
    /\ SumLapTime(lapTimes) = CumulativeOf(lapTimes, 1)
    /\ CumulativeOf(lapTimes, 1) = lastLapTime
    /\ \A i \in 1..Len(lapTimes) :
          Get(lapTimes[i], "lapTime").v
             = CumulativeOf(lapTimes, i) - CumulativeOf(lapTimes, i + 1)

TwoLapsRecorded ==
    /\ Len(lapTimes) = 2
    /\ Get(lapTimes[1], "time").v = 20
    /\ Get(lapTimes[2], "time").v = 10

\* C6: after clearAllHistory and the persistence it triggers, the key
\* "stopwatch-sessions" is absent from the blob store.
ClearAllRemovesKey ==
    lastOp = "clearAllHistory" => "stopwatch-sessions" \notin DOMAIN localStorage

\* C7: when the page is reopened right after clearAllHistory, startup yields
\* the empty session list.
ClearThenRestartYieldsEmpty ==
    (restartedAfterClear /\ lastOp \in {"mount", "renderLoaded"})
       => (pc \in {"mounted", "ready"} /\ sessions = Arr(<<>>))

RestartedAfterClearSettled ==
    /\ restartedAfterClear
    /\ lastOp = "renderLoaded"
    /\ pc = "ready"
    /\ now > 11

Malformed(store) == Stored(store).found /\ ~JSONparse(Stored(store).text).ok

\* C8: when the stored text does not parse, the load leaves the session list
\* empty, raises no error, and startup completes.
MalformedBlobLoadsEmpty ==
    [][(pc = "init" /\ Malformed(localStorage) /\ lastOp' = "mount")
         => (sessions' = Arr(<<>>) /\ pc' = "ready")]_vars

MalformedBlobLoaded ==
    /\ lastOp = "mount"
    /\ console # <<>>
    /\ pc = "ready"
    /\ sessions = Arr(<<>>)

ParsesToNonList(store) ==
    /\ Stored(store).found
    /\ JSONparse(Stored(store).text).ok
    /\ ~IsSessionList(JSONparse(Stored(store).text).val)

\* C9: when the stored text parses to a value that is not a list, the load
\* leaves the empty session list in memory and no error is surfaced.
NonListBlobLoadsEmpty ==
    [][/\ (pc = "init" /\ ParsesToNonList(localStorage) /\ lastOp' = "mount")
          => sessions' = Arr(<<>>)
       /\ (pc = "mounted" /\ ~IsSessionList(sessions) /\ lastOp' = "renderLoaded")
          => pc' = "ready"]_vars

\* C10: after a reset or a deleteSession has settled, the text stored under
\* "stopwatch-sessions" deserializes to the complete session list in memory,
\* the same sessions in the same order.
BlobIsFullList ==
    (pc = "ready" /\ lastOp \in {"handleReset", "deleteSession"})
       => /\ Stored(localStorage).found
          /\ JSONparse(Stored(localStorage).text).ok
          /\ JSONparse(Stored(localStorage).text).val = sessions

TwoSessionsPersisted ==
    /\ pc = "ready"
    /\ lastOp = "handleReset"
    /\ IsSessionList(sessions)
    /\ Len(sessions.v) = 2
    /\ Get(sessions.v[1], "lapTimes") # Arr(<<>>)

HasId(session, chars) ==
    Get(session, "id").t = "string" /\ Get(session, "id").v = chars

\* the indices of old that a strictly increasing map from new misses
KeptBy(f, old) == {f[j] : j \in DOMAIN f}

\* C11: deleteSession with an id that no session carries leaves the session
\* list as it was; with an id that a session carries it removes the entries
\* with that id and keeps every other session in its original order.
DeleteRemovesOnlyTheMatch ==
    [][(lastOp' = "deleteSession" /\ IsSessionList(sessions) /\ pc' = "ready")
         => /\ IsSessionList(sessions')
            /\ (\A i \in 1..Len(sessions.v) : ~HasId(sessions.v[i], lastArg'))
                  => sessions' = sessions
            /\ \E f \in [1..Len(sessions'.v) -> 1..Len(sessions.v)] :
                  /\ \A j, k \in DOMAIN f : j < k => f[j] < f[k]
                  /\ \A j \in DOMAIN f : sessions'.v[j] = sessions.v[f[j]]
                  /\ \A i \in 1..Len(sessions.v) :
                        i \in KeptBy(f, sessions.v) <=> ~HasId(sessions.v[i], lastArg')]_vars

\* the session saved at clock reading 31 was deleted, the stored one is kept
DeletedOneOfTwo ==
    /\ lastOp = "deleteSession"
    /\ lastArg = NumberToString(31)
    /\ sessions = Arr(<<StoredSession>>)

\* C12: every call of handleStartStop flips running and leaves the elapsed
\* time, the laps, lastLapTime and the session list unchanged.
ToggleFlipsRunningOnly ==
    [][lastOp' = "handleStartStop"
         => /\ isRunning' = ~isRunning
            /\ UNCHANGED <<time, lapTimes, lastLapTime, sessions>>]_vars

PausedByToggle ==
    /\ lastOp = "handleStartStop"
    /\ ~isRunning
    /\ time = 10
    /\ lapTimes # <<>>
    /\ nextTimer = 3

SameId(a, b) ==
    /\ Get(a, "id").t = Get(b, "id").t
    /\ Get(a, "id").t = "string" => Get(a, "id").v = Get(b, "id").v

\* C13: in every reachable state the sessions of the session list have
\* pairwise distinct ids.
SessionIdsDistinct ==
    IsSessionList(sessions)
       => \A i, j \in 1..Len(sessions.v) : i # j => ~SameId(sessions.v[i], sessions.v[j])

Splits == LapSplits(lapTimes)
FlaggedFastest == {i \in 1..Len(lapTimes) : FastestBadge(lapTimes[i], lapTimes)}
FlaggedSlowest == {i \in 1..Len(lapTimes) : SlowestBadge(lapTimes[i], lapTimes)}

\* C14: a lap is flagged Fastest iff its split is the least of the list, and
\* Slowest iff its split is the greatest and the list has more than one lap;
\* splits [500, 300, 300, 800] flag both 300 laps fastest and one lap
\* slowest, a lone lap of 400 is fastest and not slowest, and an empty list
\* has neither extreme.
BadgesMarkExtremes ==
    /\ \A i \in 1..Len(lapTimes) :
          /\ i \in FlaggedFastest <=> \A j \in 1..Len(lapTimes) : Splits[i] <= Splits[j]
          /\ i \in FlaggedSlowest <=>
                /\ \A j \in 1..Len(lapTimes) : Splits[i] >= Splits[j]
                /\ Len(lapTimes) > 1
    /\ Splits = <<500, 300, 300, 800>> =>
          /\ GetFastest(lapTimes) = Num(300)
          /\ GetSlowest(lapTimes) = Num(800)
          /\ FlaggedFastest = {2, 3}
          /\ FlaggedSlowest = {4}
    /\ Splits = <<400>> => FlaggedFastest = {1} /\ FlaggedSlowest = {}
    /\ lapTimes = <<>> => GetFastest(lapTimes) = Null /\ GetSlowest(lapTimes) = Null

FourLapsShown == Splits = <<500, 300, 300, 800>> /\ lastOp = "handleStartStop"

DigitChars == {Digits[i] : i \in DOMAIN Digits}
AllDigits(s) == \A i \in 1..Len(s) : s[i] \in DigitChars

\* C15: the clock text of ms is MM:SS.CC, with MM = ms / 60000 in at least
\* two digits, neither wrapped at 60 nor clamped, SS = (ms / 1000) mod 60 and
\* CC = (ms mod 1000) / 10 in two digits each; 0 reads 00:00.00 and 61234
\* reads 01:01.23.
ClockTextIsMinutesSecondsCentis ==
    LET text == FormatTime(renderedTime)
        n == Len(text)
        mm == SubSeq(text, 1, n - 6)
        ss == SubSeq(text, n - 4, n - 3)
        cc == SubSeq(text, n - 1, n)
    IN /\ n >= 8
       /\ text[n - 5] = ":"
       /\ text[n - 2] = "."
       /\ AllDigits(mm) /\ AllDigits(ss) /\ AllDigits(cc)
       /\ Len(mm) > 2 => mm[1] # "0"
       /\ StringToNumber(mm) = renderedTime \div 60000
       /\ StringToNumber(ss) = (renderedTime \div 1000) % 60
       /\ StringToNumber(cc) = (renderedTime % 1000) \div 10
       /\ renderedTime = 0 => text = <<"0", "0", ":", "0", "0", ".", "0", "0">>
       /\ renderedTime = 61234 => text = <<"0", "1", ":", "0", "1", ".", "2", "3">>

LongRunRendered ==
    /\ lastOp = "renderTick"
    /\ renderedTime = 6001234
    /\ FormatTime(renderedTime) = <<"1", "0", "0", ":", "0", "1", ".", "2", "3">>

\* C16: in every settled state exactly one interval is scheduled while
\* running is true, the one intervalRef holds, and none while running is
\* false or after the component is torn down.
OneIntervalIffRunning ==
    /\ pc = "ready" => IF isRunning THEN timers = {intervalRef} /\ intervalRef # 0
                       ELSE timers = {}
    /\ pc \in {"unmounted", "crashed", "init", "mounted"} => timers = {}

\* running for the second time since the page was opened
RunningAgain ==
    /\ pc = "ready"
    /\ isRunning
    /\ nextTimer = 3
    /\ timers = {2}

\* C17: read front to back, the laps of the current run carry the ids
\* n, n-1, ..., 1.
LapIdsCountDown ==
    \A i \in 1..Len(lapTimes) : Get(lapTimes[i], "id") = Num(Len(lapTimes) - i + 1)

SecondLapRecorded ==
    /\ lastOp = "handleLap"
    /\ Len(lapTimes) = 2
    /\ time > renderedTime

StoredList(store) == JSONparse(Stored(store).text).val

HoldsList(store) ==
    /\ Stored(store).found
    /\ JSONparse(Stored(store).text).ok
    /\ IsSessionList(StoredList(store))

\* C18: when the blob store holds a serialized session list at startup, the
\* settled startup leaves that list in memory and its serialization in the
\* blob store.
StartupRestoresStoredList ==
    [][/\ (pc = "init" /\ HoldsList(localStorage) /\ lastOp' = "mount")
          => (sessions' = StoredList(localStorage) /\ pc' = "mounted")
       /\ (pc = "mounted" /\ IsSessionList(sessions) /\ lastOp' = "renderLoaded")
          => /\ pc' = "ready"
             /\ sessions' = sessions
             /\ HoldsList(localStorage')
             /\ StoredList(localStorage') = sessions]_vars

TwoSessionsRestored ==
    /\ lastOp = "renderLoaded"
    /\ pc = "ready"
    /\ IsSessionList(sessions)
    /\ Len(sessions.v) = 2

\* C19: no step of the startup writes to the blob store a list that omits a
\* session that was stored before the startup.
StartupKeepsStoredSessions ==
    [][(pc = "init" /\ HoldsList(localStorage) /\ lastOp' = "mount")
         => /\ HoldsList(localStorage')
            /\ \A i \in 1..Len(StoredList(localStorage).v) :
                  \E j \in 1..Len(StoredList(localStorage').v) :
                     StoredList(localStorage').v[j] = StoredList(localStorage).v[i]]_vars

IsSession(x) == HasKey(x, "totalTime") /\ HasKey(x, "lapTimes")

WellFormedSession(x) ==
    /\ Get(x, "totalTime").v > 0
    /\ Get(x, "totalTime").v % 10 = 0
    /\ \A k \in 1..Len(Get(x, "lapTimes").v) :
          LET lap == Get(x, "lapTimes").v[k] IN
          /\ 0 <= Get(lap, "lapTime").v
          /\ Get(lap, "lapTime").v <= Get(lap, "time").v
          /\ Get(lap, "time").v <= Get(x, "totalTime").v

\* C20: a session finalized by a reset has a positive totalTime that is a
\* multiple of 10 and laps with 0 <= lapTime <= time <= totalTime; a stored
\* session never changes afterwards: every step keeps or removes whole
\* sessions, and the reset that clears the laps of the run prepends the
\* session with the laps as they were.
FinalizedSessionsAreFrozen ==
    [][(pc = "ready" /\ pc' = "ready" /\ IsSessionList(sessions) /\ IsSessionList(sessions'))
         => /\ \A j \in 1..Len(sessions'.v) :
                  \/ \E i \in 1..Len(sessions.v) : sessions'.v[j] = sessions.v[i]
                  \/ /\ lastOp' = "handleReset"
                     /\ j = 1
                     /\ WellFormedSession(sessions'.v[1])
                     /\ Get(sessions'.v[1], "lapTimes") = Arr(lapTimes)
            /\ (lastOp' = "handleReset" /\ lapTimes # <<>> /\ renderedTime > 0)
                  => (lapTimes' = <<>> /\ Get(sessions'.v[1], "lapTimes") = Arr(lapTimes))]_vars

SessionWithTwoLapsFinalized ==
    /\ lastOp = "handleReset"
    /\ lapTimes = <<>>
    /\ IsSessionList(sessions)
    /\ Len(sessions.v) = 2
    /\ Len(Get(sessions.v[1], "lapTimes").v) = 2
    /\ Get(sessions.v[1], "totalTime") = Num(20)

====
